---- MODULE Spec2Model ----
(***************************************************************************)
(* G8SMovielib: the hybrid recommender (MovieRecommender): the local       *)
(* TF-IDF / cosine pipeline and the gateway that proxies profile, score    *)
(* and recommend calls to the Python backend with a cached health probe.   *)
(*                                                                         *)
(* Numbers are fixed-point integers in hundredths (2.0 is 200); JS objects *)
(* are sequences of [k, v] entries in insertion order.                     *)
(***************************************************************************)
EXTENDS Integers, Sequences, FiniteSets, TLC

(* ----------------------------- bounds ---------------------------------- *)

\* longest collection handed to an operation
MaxColl == 2

\* gateway operations that may be in flight at once in SpecOverlap
MaxOps == 2

\* longest top_traits list the service sends
MaxTraits == 12

(* ------------------------- fixed-point numbers ------------------------- *)

\* 1.0 in hundredths
Unit == 10 * 10

RECURSIVE SqrtIter(_, _, _)
SqrtIter(n, lo, hi) ==
    IF lo >= hi THEN lo
    ELSE LET mid == (lo + hi + 1) \div 2
         IN  IF mid * mid <= n THEN SqrtIter(n, mid, hi)
                               ELSE SqrtIter(n, lo, mid - 1)

\* Math.sqrt on a non-negative integer, rounded down
Sqrt(n) == SqrtIter(n, 0, IF n < 46340 THEN n ELSE 46340)

\* Math.round(num / den) for den > 0: halves go up
RoundDiv(num, den) == (2 * num + den) \div (2 * den)

\* Math.floor(Math.sqrt(...) * 100) / 100: the root cut to hundredths
SqrtTruncated(n) == 10 * Sqrt(n)

\* Math.sqrt of n ten-thousandths, in thousandths, rounded to the nearest
SqrtFine(n) ==
    LET r == Sqrt(100 * n)
    IN  IF 100 * n - r * r > r THEN r + 1 ELSE r

\* 1.0 in ten-thousandths, the unit of a similarity
One == Unit * Unit

\* num / den in ten-thousandths for num >= 0, den > 0, rounded to the nearest
QuotientPos(num, den) ==
    LET r0 == num % den
        d1 == (r0 * 100) \div den
        r1 == (r0 * 100) % den
        d2 == (r1 * 100) \div den
        r2 == (r1 * 100) % den
    IN  (num \div den) * 10000 + d1 * 100 + d2 + (IF 2 * r2 >= den THEN 1 ELSE 0)

\* num / den in ten-thousandths for den > 0
Quotient(num, den) ==
    IF num >= 0 THEN QuotientPos(num, den) ELSE 0 - QuotientPos(0 - num, den)

\* Math.log(n / d) in hundredths, for the ratios a collection can produce
LogRatio(n, d) ==
    CASE n = d                  -> 0
      [] n = 2 * d              -> 69
      [] n = 3 * d              -> 110
      [] n = 4 * d              -> 139
      [] n = 5 * d              -> 161
      [] 2 * n = 3 * d          -> 41
      [] 3 * n = 4 * d          -> 29
      [] 2 * n = 5 * d          -> 92
      [] 3 * n = 5 * d          -> 51
      [] 4 * n = 5 * d          -> 22
      [] OTHER                  -> 0

Min(a, b) == IF a <= b THEN a ELSE b

(* ----------------------------- JS objects ------------------------------ *)

\* F(e) and F(a, b), with the arguments worked out once before F is applied
\* (an operator's argument is otherwise worked out again at each use)
Let(e, F(_)) == CHOOSE r \in {F(v) : v \in {e}} : TRUE

Let2(a, b, F(_, _)) == CHOOSE r \in {F(x, y) : x \in {a}, y \in {b}} : TRUE

\* index of key k in obj, 0 when absent
RECURSIVE IndexOf(_, _, _)
IndexOf(obj, k, i) ==
    IF i > Len(obj) THEN 0
    ELSE IF obj[i].k = k THEN i ELSE IndexOf(obj, k, i + 1)

Has(obj, k) == IndexOf(obj, k, 1) # 0

\* obj[k] || dflt
GetOr(obj, k, dflt) ==
    Let(IndexOf(obj, k, 1),
        LAMBDA i : IF i = 0 THEN dflt
                   ELSE IF obj[i].v = 0 THEN dflt ELSE obj[i].v)

\* obj[k] = v: an existing key keeps its place, a new key is appended
Put(obj, k, v) ==
    Let(IndexOf(obj, k, 1),
        LAMBDA i : IF i = 0 THEN Append(obj, [k |-> k, v |-> v])
                   ELSE [obj EXCEPT ![i] = [k |-> k, v |-> v]])

\* features[`${type}:${value}`] = v for each value
RECURSIVE PutAll(_, _, _, _)
PutAll(obj, type, values, v) ==
    IF values = <<>> THEN obj
    ELSE Let(Put(obj, <<type, Head(values)>>, v),
             LAMBDA o : PutAll(o, type, Tail(values), v))

(* ------------------------------- items --------------------------------- *)

\* s.trim().toLowerCase() on the strings the items carry
TrimLower(s) ==
    CASE s = "Action"   -> "action"
      [] s = " Drama"   -> "drama"
      [] s = "Comedy "  -> "comedy"
      [] s = "Nolan"    -> "nolan"
      [] s = " Bale"    -> "bale"
      [] s = "Bale"     -> "bale"
      [] s = "Caine"    -> "caine"
      [] s = "Oldman"   -> "oldman"
      [] s = "Hardy"    -> "hardy"
      [] s = "Lana"     -> "lana"
      [] s = " Lilly"   -> "lilly"
      [] s = "Happy"    -> "happy"
      [] s = "N/A"      -> "n/a"
      [] s = "Unknown"  -> "unknown"
      [] OTHER          -> s

\* parseInt on the year strings the items carry
ParseInt(s) ==
    CASE s = "2008"      -> 2008
      [] s = "2012"      -> 2012
      [] s = "1999"      -> 1999
      [] s = "2010-2015" -> 2010
      [] OTHER           -> 0

\* A comma-separated string field is the sequence of its pieces, so the
\* empty string is <<>> and the string 'N/A' is <<"N/A">>.
Movie(id, genre, director, actors, year, rating, mood) ==
    [imdbID |-> id, genre |-> genre, director |-> director, actors |-> actors,
     year |-> year, rating |-> rating, mood |-> mood]

M1 == Movie("tt1", <<"Action", " Drama">>, <<"Nolan">>,
            <<"Bale", "Caine", "Oldman", "Hardy">>, "2008", 5, "Happy")
M2 == Movie("tt2", <<"action">>, <<"Nolan">>, <<" Bale">>, "2012", 3, "")
\* its genre string names the same genre twice: "Comedy , comedy"
M3 == Movie("tt3", <<"Comedy ", "comedy">>, <<"N/A">>, <<"N/A">>, "1999", 0, "")

Movies == {M1, M2, M3}

\* further items: one without genre and year whose director is 'Unknown' and
\* whose actors are 'N/A', one with two directors and a range of years
M4 == Movie("tt4", <<>>, <<"Unknown">>, <<"N/A">>, "", 2, "sad")

M5 == Movie("tt5", <<"Drama">>, <<"Lana", " Lilly">>, <<"Hardy", "Caine">>,
            "2010-2015", 4, "")

\* a highly rated item without director and a poorly rated one with three
\* genres and a director: together they give a profile of more than ten
\* terms
M6 == Movie("tt6", <<"Action", " Drama">>, <<"N/A">>,
            <<"Bale", "Caine", "Oldman">>, "2008", 5, "happy")

M7 == Movie("tt7", <<"Comedy ", "horror", "western">>, <<"Lana">>, <<>>,
            "1999", 2, "sad")

FeatureItems == Movies \cup {M4, M5, M6, M7}

RECURSIVE SeqsNoRepeat(_, _)
SeqsNoRepeat(S, n) ==
    IF n = 0 THEN {<<>>}
    ELSE LET shorter == SeqsNoRepeat(S, n - 1)
         IN  shorter \cup
             {Append(s, x) : s \in {t \in shorter : Len(t) = n - 1},
                             x \in S}

Range(s) == {s[i] : i \in 1..Len(s)}

NoRepeat(s) == Cardinality(Range(s)) = Len(s)

Collections == {c \in SeqsNoRepeat(Movies, MaxColl) : NoRepeat(c)}

SuggestionCollections ==
    {c \in SeqsNoRepeat(Movies \cup {M6, M7}, MaxColl) : NoRepeat(c)}

(* --------------------------- local pipeline ---------------------------- *)

MapTrimLower(pieces) == [i \in 1..Len(pieces) |-> TrimLower(pieces[i])]

\* slice(0, n) left out: every piece is kept
FirstNAll(s, n) == s

FirstN(s, n) == SubSeq(s, 1, Min(Len(s), n))

GenreFeatures(movie, features) ==
    IF movie.genre # <<>>
    THEN PutAll(features, "genre", MapTrimLower(movie.genre), 200)
    ELSE features

DirectorFeatures(movie, features) ==
    IF movie.director # <<>> /\ movie.director # <<"N/A">>
       /\ movie.director # <<"Unknown">>
    THEN PutAll(features, "director", MapTrimLower(movie.director), 150)
    ELSE features

ActorFeatures(movie, features) ==
    IF movie.actors # <<>> /\ movie.actors # <<"N/A">>
    THEN PutAll(features, "actor", FirstN(MapTrimLower(movie.actors), 3), 100)
    ELSE features

DecadeFeature(movie, features) ==
    IF movie.year # ""
    THEN LET decade == (ParseInt(movie.year) \div 10) * 10
         IN  Put(features, <<"decade", ToString(decade) \o "s">>, 80)
    ELSE features

RatingFeature(movie, features) ==
    IF movie.rating > 0
    THEN LET bucket == IF movie.rating >= 4 THEN "high"
                       ELSE IF 2 * movie.rating >= 5 THEN "mid"
                       ELSE "low"
         IN  Put(features, <<"rating", bucket>>, 50)
    ELSE features

MoodFeature(movie, features) ==
    IF movie.mood # ""
    THEN Put(features, <<"mood", movie.mood>>, 100)
    ELSE features

extractFeatures(movie) ==
    Let(GenreFeatures(movie, <<>>), LAMBDA f1 :
    Let(DirectorFeatures(movie, f1), LAMBDA f2 :
    Let(ActorFeatures(movie, f2), LAMBDA f3 :
    Let(DecadeFeature(movie, f3), LAMBDA f4 :
    Let(RatingFeature(movie, f4), LAMBDA f5 :
    MoodFeature(movie, f5))))))

\* extractFeatures of every item, worked out once
Features == [m \in FeatureItems |-> extractFeatures(m)]

\* termDocCount of computeIDF after one more item with these features
RECURSIVE CountTerms(_, _, _)
CountTerms(counts, features, i) ==
    IF i > Len(features) THEN counts
    ELSE Let(Put(counts, features[i].k, GetOr(counts, features[i].k, 0) + 1),
             LAMBDA c : CountTerms(c, features, i + 1))

RECURSIVE TermDocCount(_, _)
TermDocCount(collection, n) ==
    IF n = 0 THEN <<>>
    ELSE Let(TermDocCount(collection, n - 1),
             LAMBDA counts : CountTerms(counts, Features[collection[n]], 1))

\* computeIDF without the + 1: Math.log(docCount / count) alone
computeIDFNoSmoothing(collection) ==
    Let(TermDocCount(collection, Len(collection)),
        LAMBDA counts :
            [i \in 1..Len(counts) |->
                [k |-> counts[i].k,
                 v |-> LogRatio(Len(collection), counts[i].v)]])

\* the table computeIDF returns and stores in idfCache
computeIDF(collection) ==
    Let(TermDocCount(collection, Len(collection)),
        LAMBDA counts :
            [i \in 1..Len(counts) |->
                [k |-> counts[i].k,
                 v |-> LogRatio(Len(collection), counts[i].v) + Unit]])

applyTFIDF(features, idf) ==
    [i \in 1..Len(features) |->
        [k |-> features[i].k,
         v |-> (features[i].v * GetOr(idf, features[i].k, Unit)) \div Unit]]

\* the boost with an unrated item (rating 0) left at 1.0
RatingBoostUnratedNeutral(movie) ==
    IF movie.rating >= 4 THEN 150
    ELSE IF movie.rating >= 3 \/ movie.rating = 0 THEN 100 ELSE 70

RatingBoost(movie) ==
    IF movie.rating >= 4 THEN 150 ELSE IF movie.rating >= 3 THEN 100 ELSE 70

\* profile[term] = (profile[term] || 0) + value * ratingBoost, term by term
RECURSIVE AddBoosted(_, _, _, _)
AddBoosted(profile, weighted, boost, i) ==
    IF i > Len(weighted) THEN profile
    ELSE Let(Put(profile, weighted[i].k,
                 GetOr(profile, weighted[i].k, 0)
                   + (weighted[i].v * boost) \div Unit),
             LAMBDA acc : AddBoosted(acc, weighted, boost, i + 1))

RECURSIVE ProfileSum(_, _, _)
ProfileSum(collection, idf, n) ==
    IF n = 0 THEN <<>>
    ELSE Let2(ProfileSum(collection, idf, n - 1),
              applyTFIDF(Features[collection[n]], idf),
              LAMBDA acc, weighted :
                  AddBoosted(acc, weighted, RatingBoost(collection[n]), 1))

\* the profile _buildUserProfileJS returns and stores in userProfile
BuildProfile(collection) ==
    IF Len(collection) = 0 THEN <<>>
    ELSE Let(computeIDF(collection), LAMBDA idf :
         Let(ProfileSum(collection, idf, Len(collection)), LAMBDA sum :
             [i \in 1..Len(sum) |->
                [k |-> sum[i].k, v |-> sum[i].v \div Len(collection)]]))

\* BuildProfile and computeIDF of every collection, worked out once
Profiles == [c \in SuggestionCollections |-> BuildProfile(c)]

IdfTables == [c \in SuggestionCollections |-> computeIDF(c)]

\* _buildUserProfileJS returning {} for an empty collection without
\* clearing this.userProfile
buildUserProfileJSKeepsProfile(collection, profile, idf) ==
    IF Len(collection) = 0
    THEN [ret |-> <<>>, userProfile |-> profile, idfCache |-> idf]
    ELSE [ret |-> Profiles[collection],
          userProfile |-> Profiles[collection],
          idfCache |-> IdfTables[collection]]

\* _buildUserProfileJS weighting the terms before computeIDF has replaced
\* the cached table
buildUserProfileJSStaleIdf(collection, profile, idf) ==
    IF Len(collection) = 0
    THEN [ret |-> <<>>, userProfile |-> <<>>, idfCache |-> idf]
    ELSE Let(ProfileSum(collection, idf, Len(collection)), LAMBDA sum :
         Let([i \in 1..Len(sum) |->
                 [k |-> sum[i].k, v |-> sum[i].v \div Len(collection)]],
             LAMBDA built :
                 [ret |-> built, userProfile |-> built,
                  idfCache |-> IdfTables[collection]]))

\* _buildUserProfileJS on an engine whose caches hold (profile, idf): the
\* value returned and the caches afterwards
buildUserProfileJS(collection, profile, idf) ==
    IF Len(collection) = 0
    THEN [ret |-> <<>>, userProfile |-> <<>>, idfCache |-> idf]
    ELSE [ret |-> Profiles[collection],
          userProfile |-> Profiles[collection],
          idfCache |-> IdfTables[collection]]

\* the sum over terms of (vecA[term] || 1) * (vecB[term] || 1): the default
\* applyTFIDF uses for a missing IDF
RECURSIVE DotOverDefaultOne(_, _, _, _)
DotOverDefaultOne(keys, vecA, vecB, i) ==
    IF i > Len(keys) THEN 0
    ELSE GetOr(vecA, keys[i], Unit) * GetOr(vecB, keys[i], Unit)
           + DotOverDefaultOne(keys, vecA, vecB, i + 1)

\* the sum over terms of (vecA[term] || 0) * (vecB[term] || 0)
RECURSIVE DotOver(_, _, _, _)
DotOver(keys, vecA, vecB, i) ==
    IF i > Len(keys) THEN 0
    ELSE GetOr(vecA, keys[i], 0) * GetOr(vecB, keys[i], 0)
           + DotOver(keys, vecA, vecB, i + 1)

\* keys of vecA followed by the keys of vecB that vecA lacks
AllTerms(vecA, vecB) ==
    [i \in 1..Len(vecA) |-> vecA[i].k]
      \o SelectSeq([i \in 1..Len(vecB) |-> vecB[i].k],
                   LAMBDA k : ~Has(vecA, k))

\* cosineSimilarity taking a vector of zero magnitude for a perfect match
cosineSimilarityZeroIsOne(vecA, vecB) ==
    Let2(vecA, vecB, LAMBDA a, b :
    Let(AllTerms(a, b), LAMBDA allTerms :
    Let2(SqrtFine(DotOver(allTerms, a, a, 1)),
         SqrtFine(DotOver(allTerms, b, b, 1)),
         LAMBDA magnitudeA, magnitudeB :
             IF magnitudeA = 0 \/ magnitudeB = 0 THEN One
             ELSE Quotient(DotOver(allTerms, a, b, 1),
                           RoundDiv(magnitudeA * magnitudeB, 100)))))

\* cosineSimilarity in ten-thousandths: the magnitudes are square roots
\* rounded to the nearest number the arithmetic can hold, as Math.sqrt does
cosineSimilarity(vecA, vecB) ==
    Let2(vecA, vecB, LAMBDA a, b :
    Let(AllTerms(a, b), LAMBDA allTerms :
    Let2(SqrtFine(DotOver(allTerms, a, a, 1)),
         SqrtFine(DotOver(allTerms, b, b, 1)),
         LAMBDA magnitudeA, magnitudeB :
             IF magnitudeA = 0 \/ magnitudeB = 0 THEN 0
             ELSE Quotient(DotOver(allTerms, a, b, 1),
                           RoundDiv(magnitudeA * magnitudeB, 100)))))

\* Math.round(cosineSimilarity(vecA, vecB) * 100)
cosineSimilarity100(vecA, vecB) == RoundDiv(cosineSimilarity(vecA, vecB), 100)

scoreMovie(movie, profile, idf) ==
    IF Len(profile) = 0 THEN 0
    ELSE cosineSimilarity100(profile, applyTFIDF(Features[movie], idf))

\* entries.sort((a, b) => b[1] - a[1]): stable, descending by weight
RECURSIVE InsertDesc(_, _)
InsertDesc(sorted, e) ==
    IF sorted = <<>> THEN <<e>>
    ELSE IF Head(sorted).v >= e.v
         THEN <<Head(sorted)>> \o InsertDesc(Tail(sorted), e)
         ELSE <<e>> \o sorted

RECURSIVE SortDesc(_, _)
SortDesc(obj, n) ==
    IF n = 0 THEN <<>>
    ELSE Let(SortDesc(obj, n - 1), LAMBDA sorted : InsertDesc(sorted, obj[n]))

CountType(suggestions, type) ==
    Len(SelectSeq(suggestions, LAMBDA s : s.type = type))

\* the weight taken as a percentage: Math.round(weight * 100)
ConfidencePercent(weight) == Min(RoundDiv(weight * 100, Unit), 99)

\* Math.min(Math.round(weight * 20), 99)
Confidence(weight) == Min(RoundDiv(weight * 20, Unit), 99)

Suggestion(type, value, weight) ==
    [type |-> type, searchTerm |-> value, confidence |-> Confidence(weight),
     \* the message template's arguments; the genre one shows weight.toFixed(1)
     message |-> <<type, value, IF type = "genre" THEN RoundDiv(weight, 10) ELSE 0>>]

\* one round of topFeatures.forEach without the find / filter tests
SuggestStepNoLimit(suggestions, feature) ==
    IF feature.k[1] \in {"genre", "director", "actor"}
    THEN Append(suggestions, Suggestion(feature.k[1], feature.k[2], feature.v))
    ELSE suggestions

\* one round of topFeatures.forEach
SuggestStep(suggestions, feature) ==
    LET type == feature.k[1]
        limit == CASE type = "genre" -> 1
                   [] type = "director" -> 1
                   [] type = "actor" -> 2
                   [] OTHER -> 0
    IN  IF CountType(suggestions, type) < limit
        THEN Append(suggestions, Suggestion(type, feature.k[2], feature.v))
        ELSE suggestions

RECURSIVE Suggest(_, _)
Suggest(topFeatures, i) ==
    IF i = 0 THEN <<>>
    ELSE Let(Suggest(topFeatures, i - 1),
             LAMBDA suggestions : SuggestStep(suggestions, topFeatures[i]))

\* the list derived from every term of the profile: slice(0, 10) left out
RankedNoTopTen(profile) ==
    Let(SortDesc(profile, Len(profile)), LAMBDA topFeatures :
    Let(Suggest(topFeatures, Len(topFeatures)), LAMBDA suggestions :
        FirstN(suggestions, 5)))

\* the list getSmartSuggestions derives from the profile it has just built
Ranked(profile) ==
    Let(FirstN(SortDesc(profile, Len(profile)), 10), LAMBDA topFeatures :
    Let(Suggest(topFeatures, Len(topFeatures)), LAMBDA suggestions :
        FirstN(suggestions, 5)))

RankedLists == [c \in SuggestionCollections |-> Ranked(Profiles[c])]

\* getSmartSuggestions on an engine whose caches hold (profile, idf)
getSmartSuggestions(collection, profile, idf) ==
    IF Len(collection) < 2
    THEN [ret |-> <<>>, userProfile |-> profile, idfCache |-> idf]
    ELSE LET built == buildUserProfileJS(collection, profile, idf)
         IN  [ret |-> RankedLists[collection],
              userProfile |-> built.userProfile,
              idfCache |-> built.idfCache]

(* --------------------------- remote service ---------------------------- *)

\* What a fetch can come to. net: the request failed ("error": network
\* error or dropped connection), was aborted by its signal ("timeout"), or
\* a response arrived; body: how response.json() decodes it.
Outcome(net, http2xx, body, status, success, top_traits, score, suggestions) ==
    [net |-> net, http2xx |-> http2xx, body |-> body, status |-> status,
     success |-> success, top_traits |-> top_traits, score |-> score,
     suggestions |-> suggestions]

Absent == [kind |-> "absent", items |-> <<>>]
NotList == [kind |-> "notList", items |-> <<>>]
List(items) == [kind |-> "list", items |-> items]
NoNumber == [present |-> FALSE, val |-> 0]
Number(n) == [present |-> TRUE, val |-> n]

NetFail(net) == Outcome(net, FALSE, "none", "absent", "absent", Absent, NoNumber, Absent)
Undecodable(http2xx) ==
    Outcome("response", http2xx, "undecodable", "absent", "absent", Absent, NoNumber, Absent)
JsonNull == Outcome("response", TRUE, "null", "absent", "absent", Absent, NoNumber, Absent)
Health(http2xx, status) ==
    Outcome("response", http2xx, "object", status, "absent", Absent, NoNumber, Absent)
Answer(success, top_traits, score, suggestions) ==
    Outcome("response", TRUE, "object", "absent", success, top_traits, score, suggestions)

NoOutcome == NetFail("none")

\* GET /health
HealthOutcomes ==
    {NetFail("error"), NetFail("timeout"), Undecodable(TRUE), JsonNull,
     Health(TRUE, "ok"), Health(TRUE, "down"), Health(TRUE, "absent"),
     Health(FALSE, "ok"), Health(FALSE, "down")}

RemoteTraits == <<[feature |-> <<"genre", "action">>, weight |-> 90],
                  [feature |-> <<"actor", "bale">>, weight |-> 40]>>

RemoteTopTraits == << <<"genre", "drama">>, <<"director", "nolan">> >>

\* a long top_traits list whose last term is one an item carries
LongTopTraits ==
    [i \in 1..MaxTraits |->
        IF i = MaxTraits THEN <<"genre", "comedy">> ELSE <<"actor", ToString(i)>>]

RemoteSuggestions ==
    <<[type |-> "genre", searchTerm |-> "drama", confidence |-> 80,
       message |-> <<"genre", "drama", 0>>]>>

\* POST /profile
ProfileOutcomes ==
    {NetFail("error"), Undecodable(TRUE), JsonNull,
     Answer("false", Absent, NoNumber, Absent),
     Answer("absent", List(RemoteTraits), NoNumber, Absent),
     Answer("true", Absent, NoNumber, Absent),
     Answer("true", NotList, NoNumber, Absent),
     Answer("true", List(RemoteTraits), NoNumber, Absent)}

\* POST /score
ScoreOutcomes ==
    {NetFail("error"), Undecodable(TRUE), JsonNull,
     Answer("false", Absent, NoNumber, Absent),
     Answer("true", Absent, NoNumber, Absent),
     Answer("true", Absent, Number(0), Absent),
     Answer("true", Absent, Number(64), Absent)}

\* POST /recommend
RecommendOutcomes ==
    {NetFail("error"), Undecodable(TRUE), JsonNull,
     Answer("false", Absent, NoNumber, Absent),
     Answer("true", Absent, NoNumber, List(RemoteSuggestions)),
     Answer("true", NotList, NoNumber, List(RemoteSuggestions)),
     Answer("true", List(RemoteTopTraits), NoNumber, Absent),
     Answer("true", List(RemoteTopTraits), NoNumber, List(RemoteSuggestions)),
     Answer("true", List(LongTopTraits), NoNumber, List(RemoteSuggestions))}

Outcomes(op) ==
    CASE op = "buildUserProfile" -> ProfileOutcomes
      [] op = "scoreMovieAsync" -> ScoreOutcomes
      [] op = "getSmartSuggestionsAsync" -> RecommendOutcomes

(* ------------------------------ gateway -------------------------------- *)

Procs == 1..MaxOps

GatewayOps == {"buildUserProfile", "scoreMovieAsync", "getSmartSuggestionsAsync"}

Args(op) == IF op = "scoreMovieAsync" THEN Movies ELSE Collections

\* the operations app.js lets overlap (init starts buildUserProfile without
\* awaiting it, showRecommendations awaits getSmartSuggestionsAsync), and
\* the arguments and outcomes drawn for them
OverlapOps == {"buildUserProfile", "getSmartSuggestionsAsync"}

OverlapArgs(op) == {<<M1, M2>>}

OverlapHealthOutcomes == {NetFail("timeout"), Health(TRUE, "ok")}

OverlapOutcomes(op) ==
    CASE op = "buildUserProfile" ->
             {NetFail("error"), Answer("true", List(RemoteTraits), NoNumber, Absent)}
      [] op = "getSmartSuggestionsAsync" ->
             {NetFail("error"),
              Answer("true", List(RemoteTopTraits), NoNumber, List(RemoteSuggestions))}

(* ----------------------- users, library, emitter ------------------------ *)

\* the accounts of the page and the items they add, by imdbID
Emails == {"a@x", "b@x"}

Ids == {"tt1", "tt2", "tt3"}

\* state.currentUser = null
NoUser == [email |-> "null", collection |-> <<>>, watchlist |-> <<>>]

\* new User(name, email, ...): an empty collection and an empty watchlist
NewUser(email) == [email |-> email, collection |-> <<>>, watchlist |-> <<>>]

\* no entry of this email in localStorage's movieLibraryUsers
NoData ==
    [saved |-> FALSE, collection |-> <<>>, watchlist |-> <<>>,
     achievements |-> {}]

\* the achievements whose condition needs one item only
AchievementIds == {"first_movie", "watchlist_starter"}

\* this._events[eventName] of a new emitter: undefined
NoListeners == [defined |-> FALSE, cbs |-> <<>>]

\* the wrappers once() can have registered at one time, and the number of
\* invocations of one callback followed
MaxListeners == 2

MaxInvoked == 3

VARIABLES
    currentUser,       \* state.currentUser: email, collection, watchlist
    allUsers,          \* localStorage's movieLibraryUsers, by email
    achievements,      \* the ids AchievementManager holds unlocked
    events,            \* this._events[eventName] of an emitter
    invoked            \* invocations of the callback of each once() wrapper

appVars == <<currentUser, allUsers, achievements, events, invoked>>

VARIABLES
    serverAvailable,   \* "null" (unchecked), "true" or "false"
    idfCache,
    userProfile,
    pc,                \* where each activation is suspended
    call,              \* its operation and argument
    resp,              \* what its POST came to, once settled
    hist,              \* serverAvailable when it started, the requests it sent
    probes,            \* GET /health requests issued so far
    demoted,           \* a remote call has failed in its catch block
    last               \* what the last step showed: a probe settling, a return

engineVars == <<serverAvailable, idfCache, userProfile, pc, call, resp, hist,
                probes, demoted, last>>

vars == <<engineVars, appVars>>

NoCall == [op |-> "none", arg |-> <<>>]
NoHist == [startAvail |-> "none", sent |-> {}]
Nothing == [type |-> "none"]

Val(kind, val) == [kind |-> kind, val |-> val]

\* the page before anyone has signed up, a new emitter
InitApp ==
    /\ currentUser = NoUser
    /\ allUsers = [email \in Emails |-> NoData]
    /\ achievements = {}
    /\ events = NoListeners
    /\ invoked = [id \in 1..MaxListeners |-> 0]

\* new MovieRecommender()
InitEngine ==
    /\ serverAvailable = "null"
    /\ idfCache = <<>>
    /\ userProfile = <<>>
    /\ pc = [p \in Procs |-> "idle"]
    /\ call = [p \in Procs |-> NoCall]
    /\ resp = [p \in Procs |-> NoOutcome]
    /\ hist = [p \in Procs |-> NoHist]
    /\ probes = 0
    /\ demoted = FALSE
    /\ last = Nothing

Init == InitEngine /\ InitApp

\* checkServer without its first line: every call probes
ProbeAlways(available) == TRUE

\* checkServer probing again once the service was found down
ProbeUnlessUp(available) == available # "true"

\* checkServer's first line: the cached answer is returned without a probe
ProbeNeeded(available) == available = "null"

\* checkServer once the probe has settled with outcome h
HealthVerdict(h) ==
    IF h.net # "response" \/ h.body # "object" THEN "false"
    ELSE IF h.status = "ok" THEN "true" ELSE "false"

\* the catch block of the three ...Python methods runs: fetch rejected,
\* response.json() rejected, or data.success was read off null
Threw(op, r) ==
    \/ r.net # "response"
    \/ r.body = "undecodable"
    \/ r.body = "null" /\ op # "buildUserProfile"

Truthy(r) == r.body = "object"

\* the step every activation starts with: await this.checkServer()
Call(p, op, arg) ==
    /\ pc[p] = "idle"
    /\ call' = [call EXCEPT ![p] = [op |-> op, arg |-> arg]]
    /\ IF ProbeNeeded(serverAvailable)
       THEN /\ pc' = [pc EXCEPT ![p] = "probing"]
            /\ probes' = probes + 1
            /\ hist' = [hist EXCEPT ![p] = [startAvail |-> serverAvailable,
                                            sent |-> {"health"}]]
       ELSE /\ pc' = [pc EXCEPT ![p] = "checked"]
            /\ probes' = probes
            /\ hist' = [hist EXCEPT ![p] = [startAvail |-> serverAvailable,
                                            sent |-> {}]]
    /\ last' = Nothing
    /\ UNCHANGED <<serverAvailable, idfCache, userProfile, resp, demoted>>

\* operations issued one at a time
CallSeq ==
    /\ \A q \in Procs : pc[q] = "idle"
    /\ \E op \in GatewayOps : \E arg \in Args(op) : Call(1, op, arg)

\* operations started while others are in flight, each in the first free
\* activation
CallOverlap ==
    \E p \in Procs :
        /\ \A q \in 1..(p - 1) : pc[q] # "idle"
        /\ \E op \in OverlapOps : \E arg \in OverlapArgs(op) : Call(p, op, arg)

\* the health fetch settles: lines 44 to 50 of checkServer
ProbeSettle(p, outcomes) ==
    /\ pc[p] = "probing"
    /\ \E h \in outcomes :
          /\ serverAvailable' = HealthVerdict(h)
          /\ last' = [type |-> "probe", proc |-> p, outcome |-> h]
    /\ pc' = [pc EXCEPT ![p] = "checked"]
    /\ UNCHANGED <<idfCache, userProfile, call, resp, hist, probes, demoted>>

\* the local methods with a scoreMovie that rebuilds the IDF table for the
\* item it scores
LocalScoreRebuildsIdf(op, arg, profile, idf) ==
    CASE op = "buildUserProfile" ->
             LET r == buildUserProfileJS(arg, profile, idf)
             IN  [ret |-> Val("profile", r.ret), userProfile |-> r.userProfile,
                  idfCache |-> r.idfCache]
      [] op = "scoreMovieAsync" ->
             [ret |-> Val("number", scoreMovie(arg, profile, idf)),
              userProfile |-> profile, idfCache |-> IdfTables[<<arg>>]]
      [] op = "getSmartSuggestionsAsync" ->
             LET r == getSmartSuggestions(arg, profile, idf)
             IN  [ret |-> Val("suggestions", r.ret), userProfile |-> r.userProfile,
                  idfCache |-> r.idfCache]

\* the engine and the value returned by the local fallback of op
Local(op, arg, profile, idf) ==
    CASE op = "buildUserProfile" ->
             LET r == buildUserProfileJS(arg, profile, idf)
             IN  [ret |-> Val("profile", r.ret), userProfile |-> r.userProfile,
                  idfCache |-> r.idfCache]
      [] op = "scoreMovieAsync" ->
             [ret |-> Val("number", scoreMovie(arg, profile, idf)),
              userProfile |-> profile, idfCache |-> idf]
      [] op = "getSmartSuggestionsAsync" ->
             LET r == getSmartSuggestions(arg, profile, idf)
             IN  [ret |-> Val("suggestions", r.ret), userProfile |-> r.userProfile,
                  idfCache |-> r.idfCache]

\* the activation settles its promise with ret and is gone
Return(p, ret, profile, idf) ==
    /\ userProfile' = profile
    /\ idfCache' = idf
    /\ last' = [type |-> "return", proc |-> p, op |-> call[p].op,
                arg |-> call[p].arg, ret |-> ret, resp |-> resp[p],
                startAvail |-> hist[p].startAvail, sent |-> hist[p].sent]
    /\ pc' = [pc EXCEPT ![p] = "idle"]
    /\ call' = [call EXCEPT ![p] = NoCall]
    /\ resp' = [resp EXCEPT ![p] = NoOutcome]
    /\ hist' = [hist EXCEPT ![p] = NoHist]

Fallback(p) ==
    LET l == Local(call[p].op, call[p].arg, userProfile, idfCache)
    IN  Return(p, l.ret, l.userProfile, l.idfCache)

\* if (this.serverAvailable !== null): a cached false takes the remote path
TakesRemoteUnlessNull(available) == available # "null"

\* if (this.serverAvailable): the field is read again after the await
TakesRemote(available) == available = "true"

\* after await this.checkServer(): the POST is sent, or the fallback runs
AfterCheck(p) ==
    /\ pc[p] = "checked"
    /\ IF TakesRemote(serverAvailable)
       THEN /\ pc' = [pc EXCEPT ![p] = "remote"]
            /\ hist' = [hist EXCEPT ![p].sent = @ \cup {"post"}]
            /\ last' = Nothing
            /\ UNCHANGED <<idfCache, userProfile, call, resp>>
       ELSE Fallback(p)
    /\ UNCHANGED <<serverAvailable, probes, demoted>>

\* a catch block that returns null without this.serverAvailable = false
AfterRemoteNoDemotion(op, r, available) == available

\* serverAvailable after a ...Python method has settled with outcome r
AfterRemote(op, r, available) == IF Threw(op, r) THEN "false" ELSE available

\* the POST settles inside buildUserProfilePython, scoreMoviePython or
\* getSmartSuggestionsPython
RemoteSettle(p, outcomes) ==
    /\ pc[p] = "remote"
    /\ \E r \in outcomes[call[p].op] :
          /\ resp' = [resp EXCEPT ![p] = r]
          /\ serverAvailable' = AfterRemote(call[p].op, r, serverAvailable)
          /\ demoted' = (demoted \/ Threw(call[p].op, r))
    /\ pc' = [pc EXCEPT ![p] = "remoteDone"]
    /\ last' = Nothing
    /\ UNCHANGED <<idfCache, userProfile, call, hist, probes>>

\* this.userProfile[t.feature] = t.weight over result.top_traits
RECURSIVE CacheTraits(_, _)
CacheTraits(traits, n) ==
    IF n = 0 THEN <<>>
    ELSE Put(CacheTraits(traits, n - 1), traits[n].feature, traits[n].weight)

\* this.userProfile[t] = 1.0 - (i * 0.1) over result.topTraits, i from 0
RECURSIVE RankTraits(_, _)
RankTraits(traits, n) ==
    IF n = 0 THEN <<>>
    ELSE Put(RankTraits(traits, n - 1), traits[n], Unit - (n - 1) * 10)

\* what scoreMoviePython hands back for a decoded answer:
\* data.success ? data.score : 0
PythonScore(r) ==
    IF r.success = "true"
    THEN IF r.score.present THEN Val("number", r.score.val)
         ELSE Val("undefined", 0)
    ELSE Val("number", 0)

\* the remote answer is used: result && result.success, score !== null,
\* or a non-null result of getSmartSuggestionsPython
RemoteUsed(op, r) ==
    CASE op = "buildUserProfile" -> Truthy(r) /\ r.success = "true"
      [] op = "scoreMovieAsync" -> ~Threw(op, r)
      [] op = "getSmartSuggestionsAsync" -> ~Threw(op, r) /\ r.success = "true"

\* the continuation after the await of the ...Python method
AfterRemoteCall(p) ==
    /\ pc[p] = "remoteDone"
    /\ LET op == call[p].op
           r == resp[p]
       IN  IF ~RemoteUsed(op, r) THEN Fallback(p)
           ELSE IF op = "scoreMovieAsync"
                THEN Return(p, PythonScore(r), userProfile, idfCache)
           ELSE IF r.top_traits.kind = "notList"
                \* forEach is not a function: userProfile is already {}
                THEN Return(p, Val("throw", "TypeError"), <<>>, idfCache)
           ELSE IF op = "buildUserProfile"
                THEN Return(p, Val("response", r),
                            CacheTraits(r.top_traits.items, Len(r.top_traits.items)),
                            idfCache)
           ELSE Return(p, IF r.suggestions.kind = "list"
                          THEN Val("suggestions", r.suggestions.items)
                          ELSE Val("undefined", 0),
                       RankTraits(r.top_traits.items, Len(r.top_traits.items)),
                       idfCache)
    /\ UNCHANGED <<serverAvailable, probes, demoted>>

\* the synchronous methods called directly (app.js scores search results),
\* between two gateway operations
SyncCall ==
    /\ \A q \in Procs : pc[q] = "idle"
    /\ \E fn \in {"_buildUserProfileJS", "scoreMovie", "getSmartSuggestions"} :
      \E arg \in (IF fn = "scoreMovie" THEN Movies ELSE Collections) :
          LET l == Local(CASE fn = "_buildUserProfileJS" -> "buildUserProfile"
                           [] fn = "scoreMovie" -> "scoreMovieAsync"
                           [] fn = "getSmartSuggestions" -> "getSmartSuggestionsAsync",
                         arg, userProfile, idfCache)
          IN  /\ userProfile' = l.userProfile
              /\ idfCache' = l.idfCache
              /\ last' = [type |-> "sync", fn |-> fn, arg |-> arg, ret |-> l.ret,
                          \* the same call as the step before
                          repeated |-> /\ last.type = "sync"
                                       /\ last.fn = fn
                                       /\ last.arg = arg]
              /\ UNCHANGED <<serverAvailable, pc, call, resp, hist, probes,
                             demoted>>

Next ==
    \/ CallSeq /\ UNCHANGED appVars
    \/ SyncCall /\ UNCHANGED appVars
    \/ \E p \in Procs : ProbeSettle(p, HealthOutcomes) /\ UNCHANGED appVars
    \/ \E p \in Procs : AfterCheck(p) /\ UNCHANGED appVars
    \/ \E p \in Procs :
          /\ RemoteSettle(p, [op \in GatewayOps |-> Outcomes(op)])
          /\ UNCHANGED appVars
    \/ \E p \in Procs : AfterRemoteCall(p) /\ UNCHANGED appVars

NextOverlap ==
    \/ CallOverlap /\ UNCHANGED appVars
    \/ \E p \in Procs : ProbeSettle(p, OverlapHealthOutcomes) /\ UNCHANGED appVars
    \/ \E p \in Procs : AfterCheck(p) /\ UNCHANGED appVars
    \/ \E p \in Procs :
          /\ RemoteSettle(p, [op \in OverlapOps |-> OverlapOutcomes(op)])
          /\ UNCHANGED appVars
    \/ \E p \in Procs : AfterRemoteCall(p) /\ UNCHANGED appVars

\* gateway operations and direct calls issued one at a time
Spec == Init /\ [][Next]_vars

\* the vectors handed to cosineSimilarity: objects over two terms, the empty
\* one and the all-zero ones included
Vectors ==
    LET Weights == {0, 100, 300, 400}
        VectorTerms == {<<"genre", "action">>, <<"genre", "drama">>}
    IN  {<<>>}
          \cup {<<[k |-> t, v |-> w]>> : t \in VectorTerms, w \in Weights}
          \cup {<<[k |-> <<"genre", "action">>, v |-> a],
                  [k |-> <<"genre", "drama">>, v |-> b]>> : a, b \in Weights}

\* cosineSimilarity of every pair of them, worked out once
Similarities == [a \in Vectors |-> [b \in Vectors |-> cosineSimilarity(a, b)]]

\* cosineSimilarity called directly
CosineCall ==
    /\ \E a \in Vectors : \E b \in Vectors :
          last' = [type |-> "sync", fn |-> "cosineSimilarity", arg |-> <<a, b>>,
                   ret |-> Val("number", Similarities[a][b])]
    /\ UNCHANGED <<serverAvailable, idfCache, userProfile, pc, call, resp,
                   hist, probes, demoted>>

\* computeIDF called directly: the table is returned and stored
IdfCall ==
    /\ \E collection \in Collections :
          /\ idfCache' = IdfTables[collection]
          /\ last' = [type |-> "sync", fn |-> "computeIDF", arg |-> collection,
                      ret |-> Val("idf", IdfTables[collection])]
    /\ UNCHANGED <<serverAvailable, userProfile, pc, call, resp, hist, probes,
                   demoted>>

\* extractFeatures called directly
FeaturesCall ==
    /\ \E movie \in FeatureItems :
          last' = [type |-> "sync", fn |-> "extractFeatures", arg |-> movie,
                   ret |-> Val("features", Features[movie])]
    /\ UNCHANGED <<serverAvailable, idfCache, userProfile, pc, call, resp,
                   hist, probes, demoted>>

NextMethods ==
    \/ CosineCall /\ UNCHANGED appVars
    \/ IdfCall /\ UNCHANGED appVars
    \/ FeaturesCall /\ UNCHANGED appVars

\* getSmartSuggestions called directly
SuggestionsCall ==
    /\ \E collection \in SuggestionCollections :
          LET r == getSmartSuggestions(collection, userProfile, idfCache)
          IN  /\ userProfile' = r.userProfile
              /\ idfCache' = r.idfCache
              /\ last' = [type |-> "sync", fn |-> "getSmartSuggestions",
                          arg |-> collection, ret |-> Val("suggestions", r.ret)]
    /\ UNCHANGED <<serverAvailable, pc, call, resp, hist, probes, demoted>>

\* _buildUserProfileJS called directly
ProfileCall ==
    /\ \E collection \in SuggestionCollections :
          LET r == buildUserProfileJS(collection, userProfile, idfCache)
          IN  /\ userProfile' = r.userProfile
              /\ idfCache' = r.idfCache
              /\ last' = [type |-> "sync", fn |-> "_buildUserProfileJS",
                          arg |-> collection, ret |-> Val("profile", r.ret)]
    /\ UNCHANGED <<serverAvailable, pc, call, resp, hist, probes, demoted>>

NextSuggestions ==
    \/ SuggestionsCall /\ UNCHANGED appVars
    \/ ProfileCall /\ UNCHANGED appVars

\* the profile and the suggestions worked out locally for collections of
\* richer items
SpecSuggestions == Init /\ [][NextSuggestions]_vars

\* the methods of the local pipeline that the engine's other methods build
\* on, called directly
SpecMethods == Init /\ [][NextMethods]_vars

\* gateway operations that overlap
SpecOverlap == Init /\ [][NextOverlap]_vars

\* The health fetch is aborted after 2000 ms, so it settles; a continuation
\* runs once its promise has settled. Nothing bounds the wait for a POST.
Fairness ==
    \A p \in Procs :
        /\ WF_vars(ProbeSettle(p, HealthOutcomes) /\ UNCHANGED appVars)
        /\ WF_vars(AfterCheck(p) /\ UNCHANGED appVars)
        /\ WF_vars(AfterRemoteCall(p) /\ UNCHANGED appVars)

FairSpec == Spec /\ Fairness

(* ------------------------------ properties ----------------------------- *)

SameVal(a, b) == a.kind = b.kind /\ a.val = b.val

Returned == last.type = "return"

\* the step is the return of activation p
Returns(p) == pc[p] # "idle" /\ pc'[p] = "idle"

\* the step sends a request: a GET /health or a POST
SendsRequest ==
    \/ probes' # probes
    \/ \E p \in Procs : pc[p] # "remote" /\ pc'[p] = "remote"

\* the step ends activation p with exactly what the local method does
ReturnsLocal(p) ==
    LET l == Local(call[p].op, call[p].arg, userProfile, idfCache)
    IN  /\ SameVal(last'.ret, l.ret)
        /\ userProfile' = l.userProfile
        /\ idfCache' = l.idfCache

\* C1: with operations issued one at a time, once serverAvailable is false
\* it is false after every later step: it never becomes true or null again.
C1_StickyUnavailable ==
    [][serverAvailable = "false" => serverAvailable' = "false"]_vars

C1_Witness ==
    /\ serverAvailable = "false"
    /\ Returned /\ last.startAvail = "false"

\* the remote call failed by network error, dropped connection or
\* undecodable body
CallFailed(r) == r.net = "error" \/ (r.net = "response" /\ r.body = "undecodable")

\* C2: an operation whose remote call fails by network error or undecodable
\* body returns with serverAvailable false; once a remote call has failed no
\* step sends a request any more; an operation whose remote call was
\* answered and decoded returns with serverAvailable still true.
C2_DemotionOnFailure ==
    [][/\ \A p \in Procs :
            (Returns(p) /\ "post" \in hist[p].sent) =>
                IF CallFailed(resp[p]) THEN serverAvailable' = "false"
                ELSE Threw(call[p].op, resp[p]) \/ serverAvailable' = "true"
       /\ demoted => ~SendsRequest]_vars

C2_Witness ==
    /\ demoted
    /\ Returned /\ last.startAvail = "false" /\ last.sent = {}

\* C3: an operation whose remote call returned a decodable JSON object
\* without success = true returns with serverAvailable false.
C3_MalformedDemotes ==
    (Returned /\ "post" \in last.sent /\ last.resp.body = "object"
       /\ last.resp.success # "true")
        => serverAvailable = "false"

\* the remote path produced a successful response
Successful(r) == r.net = "response" /\ r.body = "object" /\ r.success = "true"

\* C4: an operation whose remote call did not produce a successful response
\* returns what the local method returns for the same argument and caches.
C4_FallbackIsLocal ==
    [][\A p \in Procs :
          (Returns(p) /\ "post" \in hist[p].sent /\ ~Successful(resp[p]))
              => ReturnsLocal(p)]_vars

\* C5: an operation started while serverAvailable is false sends no request,
\* leaves serverAvailable false and ends with the local method's result.
C5_UnavailableStaysLocal ==
    [][/\ \A p \in Procs :
            (pc[p] = "idle" /\ pc'[p] # "idle" /\ serverAvailable = "false")
                => ~SendsRequest /\ serverAvailable' = "false"
       /\ \A p \in Procs :
            (pc[p] # "idle" /\ hist[p].startAvail = "false")
                => /\ ~SendsRequest
                   /\ serverAvailable' = "false"
                   /\ Returns(p)
                   /\ last'.sent = {}
                   /\ ReturnsLocal(p)]_vars

C5_Witness ==
    /\ Returned /\ last.startAvail = "false"
    /\ last.op = "buildUserProfile" /\ last.ret.kind = "profile"

\* a 2xx response whose JSON body has status exactly "ok"
GoodHealth(h) ==
    h.net = "response" /\ h.http2xx /\ h.body = "object" /\ h.status = "ok"

\* C6: when the probe settles the state is Available exactly if the probe
\* got a 2xx response whose body has status "ok", and it is never Unknown.
C6_ProbeVerdict ==
    last.type = "probe" =>
        /\ serverAvailable # "null"
        /\ (serverAvailable = "true") <=> GoodHealth(last.outcome)

\* C7 as stated: at most one GET /health is ever issued, overlap included.
C7_AtMostOneProbe == probes <= 1

\* C7 as amended: a GET /health is issued only in a step taken while
\* serverAvailable is null, one per starting operation, and serverAvailable
\* never becomes null again: no probe follows a settled one.
C7_ProbeOnlyWhileUnknown ==
    [][/\ probes' # probes =>
            /\ serverAvailable = "null"
            /\ probes' = probes + 1
            /\ \E p \in Procs : pc[p] = "idle" /\ pc'[p] = "probing"
       /\ serverAvailable # "null" => serverAvailable' # "null"]_vars

C7_Witness == probes = 2 /\ serverAvailable # "null"

\* C8: no operation throws: each returns a value, getSmartSuggestionsAsync a
\* list of suggestions.
C8_NeverThrows ==
    Returned =>
        /\ last.ret.kind # "throw"
        /\ last.op = "getSmartSuggestionsAsync" => last.ret.kind = "suggestions"

\* C9: every operation that has started eventually returns.
C9_AlwaysReturns ==
    \A p \in Procs : (pc[p] # "idle") ~> (pc[p] = "idle")

\* C10: _buildUserProfileJS([]) returns an empty profile and empties
\* userProfile, getSmartSuggestions([]) returns an empty list, and scoreMovie
\* returns 0 while userProfile is empty; none of them throws.
C10_EmptyIsNeutral ==
    last.type = "sync" =>
        /\ last.ret.kind # "throw"
        /\ (last.fn = "_buildUserProfileJS" /\ last.arg = <<>>)
              => last.ret.val = <<>> /\ userProfile = <<>>
        /\ (last.fn = "getSmartSuggestions" /\ last.arg = <<>>)
              => last.ret.val = <<>>
        /\ (last.fn = "scoreMovie" /\ userProfile = <<>>)
              => last.ret.val = 0

C10_Witness ==
    /\ last.type = "sync" /\ last.fn = "_buildUserProfileJS"
    /\ last.arg = <<>> /\ idfCache # <<>>

\* the last step was a direct call of the method fn
Called(fn) == last.type = "sync" /\ last.fn = fn

\* how many of the suggestions have this type
OfType(suggestions, type) ==
    Cardinality({i \in 1..Len(suggestions) : suggestions[i].type = type})

\* C11: getSmartSuggestions returns at most 5 suggestions, at most 1 of type
\* genre, at most 1 of type director and at most 2 of type actor.
C11_SuggestionLimits ==
    Called("getSmartSuggestions") =>
        /\ Len(last.ret.val) <= 5
        /\ OfType(last.ret.val, "genre") <= 1
        /\ OfType(last.ret.val, "director") <= 1
        /\ OfType(last.ret.val, "actor") <= 2

C11_Witness ==
    /\ Called("getSmartSuggestions")
    /\ OfType(last.ret.val, "genre") = 1
    /\ OfType(last.ret.val, "director") = 1
    /\ OfType(last.ret.val, "actor") = 2
    /\ Cardinality({i \in 1..Len(userProfile) : userProfile[i].k[1] = "actor"}) > 2

\* C12: every suggestion getSmartSuggestions returns has confidence
\* min(round(weight * 20), 99), weight being the weight userProfile holds for
\* the suggestion's term, and that is an integer from 0 to 99.
C12_Confidence ==
    Called("getSmartSuggestions") =>
        \A i \in 1..Len(last.ret.val) :
            LET s == last.ret.val[i]
                weight == GetOr(userProfile, <<s.type, s.searchTerm>>, 0)
                scaled == (2 * weight * 20 + Unit) \div (2 * Unit)
            IN  /\ s.confidence = IF scaled < 99 THEN scaled ELSE 99
                /\ s.confidence \in 0..99

C12_Witness ==
    /\ Called("getSmartSuggestions")
    /\ \E i \in 1..Len(last.ret.val) : last.ret.val[i].confidence > 0

\* C13: in every reachable state scoreMovie returns an integer from 0 to 100
\* for every item.
C13_ScoreRange ==
    \A movie \in Movies : scoreMovie(movie, userProfile, idfCache) \in 0..100

\* the item's extracted terms and the cached profile have no term in common
NoSharedTerm(movie) ==
    \A i \in 1..Len(Features[movie]) : ~Has(userProfile, Features[movie][i].k)

\* C14: scoreMovie returns 0 for every item whose extracted terms share no
\* term with the cached userProfile.
C14_DisjointScoresZero ==
    \A movie \in Movies :
        NoSharedTerm(movie) => scoreMovie(movie, userProfile, idfCache) = 0

C14_Witness ==
    /\ Called("scoreMovie")
    /\ userProfile # <<>>
    /\ NoSharedTerm(last.arg)
    /\ last.ret.val = 0

\* every weight of the vector is 0: its magnitude is 0
ZeroMagnitude(vec) == \A i \in 1..Len(vec) : vec[i].v = 0

\* C15: cosineSimilarity(a, b) returns 0 whenever a or b has zero magnitude.
C15_ZeroVector ==
    (Called("cosineSimilarity")
       /\ (ZeroMagnitude(last.arg[1]) \/ ZeroMagnitude(last.arg[2])))
        => last.ret = Val("number", 0)

C15_Witness ==
    /\ Called("cosineSimilarity")
    /\ last.arg[1] # <<>> /\ ZeroMagnitude(last.arg[1])
    /\ ~ZeroMagnitude(last.arg[2])
    /\ last.ret.val = 0

\* the last step was cosineSimilarity(v, v) for a v of non-zero magnitude
SelfSimilarity ==
    /\ Called("cosineSimilarity")
    /\ last.arg[1] = last.arg[2]
    /\ ~ZeroMagnitude(last.arg[1])

\* C16 as stated: cosineSimilarity(v, v) equals 1 for every v of non-zero
\* magnitude.
C16_SelfSimilarityIsOne == SelfSimilarity => last.ret.val = One

\* C16 as amended: cosineSimilarity(v, v) is 1 up to the rounding of the
\* square roots, less than half a hundredth away, so that the score
\* Math.round(similarity * 100) is exactly 100.
C16_SelfSimilarityRoundsToOne ==
    SelfSimilarity =>
        /\ (2 * last.ret.val + 100) \div 200 = 100
        /\ last.ret.val - One \in -49..49

C16_Witness == SelfSimilarity /\ last.ret.val # One

\* the number of items of the collection whose extracted terms hold the term
DocumentFrequency(collection, term) ==
    Cardinality({j \in 1..Len(collection) : Has(Features[collection[j]], term)})

\* C17: for a collection of N items computeIDF gives every term of the
\* collection the value ln(N / df) + 1, df being the number of items that
\* hold the term, with 1 <= df <= N, so every value is at least 1; for an
\* empty collection the table is empty.
C17_IdfAtLeastOne ==
    Called("computeIDF") =>
        LET collection == last.arg
            idf == last.ret.val
        IN  /\ idfCache = idf
            /\ collection = <<>> => idf = <<>>
            /\ \A j \in 1..Len(collection) :
                 \A i \in 1..Len(Features[collection[j]]) :
                    Has(idf, Features[collection[j]][i].k)
            /\ \A i \in 1..Len(idf) :
                 LET df == DocumentFrequency(collection, idf[i].k)
                 IN  /\ df \in 1..Len(collection)
                     /\ idf[i].v = LogRatio(Len(collection), df) + Unit
                     /\ idf[i].v >= Unit

C17_Witness ==
    /\ Called("computeIDF")
    /\ Len(last.arg) = 2
    /\ \E i \in 1..Len(idfCache) : idfCache[i].v = Unit
    /\ \E i \in 1..Len(idfCache) : idfCache[i].v > Unit

\* C18: _buildUserProfileJS called a second time with the same collection
\* leaves userProfile and idfCache as the first call left them and returns
\* the same profile, whatever the caches held before the first call.
C18_RebuildIsIdentical ==
    [][(/\ last'.type = "sync"
        /\ last'.fn = "_buildUserProfileJS"
        /\ last'.repeated)
           => /\ userProfile' = userProfile
              /\ idfCache' = idfCache
              /\ last'.ret = last.ret]_vars

C18_Witness ==
    /\ Called("_buildUserProfileJS")
    /\ last.repeated
    /\ last.arg # <<>>
    /\ userProfile # <<>>

\* the last step replaced userProfile by a profile for the non-empty
\* collection last.arg: a local build, or a remote answer that was used
ProfileReplaced ==
    \/ Called("_buildUserProfileJS") /\ last.arg # <<>>
    \/ Called("getSmartSuggestions") /\ Len(last.arg) >= 2
    \/ /\ Returned
       /\ last.op \in {"buildUserProfile", "getSmartSuggestionsAsync"}
       /\ last.arg # <<>>
       /\ last.ret.kind # "throw"
       /\ \/ "post" \in last.sent /\ RemoteUsed(last.op, last.resp)
          \/ last.op = "buildUserProfile"
          \/ Len(last.arg) >= 2

\* C19: whenever userProfile has been replaced by a profile for a non-empty
\* collection, on the remote or the local path, idfCache is the IDF table of
\* that collection.
C19_IdfMatchesProfile == ProfileReplaced => idfCache = IdfTables[last.arg]

\* C20: every weight stored in userProfile is non-negative.
C20_NonNegativeWeights == \A i \in 1..Len(userProfile) : userProfile[i].v >= 0

(* ----------------------- terms of a feature vector --------------------- *)

\* a string that trim() and toLowerCase() leave as it is
Normalized(str) == TrimLower(str) = str

Keys(obj) == [i \in 1..Len(obj) |-> obj[i].k]

\* C21: every term extractFeatures produces, of whatever kind, has a
\* lower-cased and trimmed value, and no term appears twice in the vector.
C21_TermsNormalized ==
    Called("extractFeatures") =>
        /\ \A i \in 1..Len(last.ret.val) : Normalized(last.ret.val[i].k[2])
        /\ NoRepeat(Keys(last.ret.val))

(* ------------------------- the profile formula ------------------------- *)

\* the weight of a term in an object, 0 for a term it does not hold
WeightOf(obj, term) ==
    IF Has(obj, term) THEN obj[IndexOf(obj, term, 1)].v ELSE 0

\* the terms of the first n items of a collection
TermsOf(collection, n) ==
    UNION {Range(Keys(Features[collection[i]])) : i \in 1..n}

\* tf * idf * boost of one item for one term, with boost 1.5 from rating 4,
\* 1.0 from rating 3 and 0.7 below
BoostedWeight(movie, term, idf) ==
    LET tf    == WeightOf(Features[movie], term)
        boost == IF movie.rating >= 4 THEN 150
                 ELSE IF movie.rating >= 3 THEN 100 ELSE 70
    IN  (((tf * GetOr(idf, term, Unit)) \div Unit) * boost) \div Unit

RECURSIVE BoostedSum(_, _, _, _)
BoostedSum(collection, term, idf, n) ==
    IF n = 0 THEN 0
    ELSE BoostedWeight(collection[n], term, idf)
           + BoostedSum(collection, term, idf, n - 1)

\* C22: for a non-empty collection of N items _buildUserProfileJS yields, for
\* each term of its items and for no other term, the sum over all the items of
\* tf * idf * boost divided by N, with the idf of the table recomputed over
\* that collection and the boost 0.7 for unrated items too.
C22_ProfileFormula ==
    (Called("_buildUserProfileJS") /\ Len(last.arg) > 0) =>
        LET collection == last.arg
            N == Len(collection)
        IN  /\ last.ret = Val("profile", userProfile)
            /\ Range(Keys(userProfile)) = TermsOf(collection, N)
            /\ \A term \in TermsOf(collection, N) :
                  WeightOf(userProfile, term)
                    = BoostedSum(collection, term, computeIDF(collection), N)
                        \div N

\* a profile built from a rated item and an unrated one that share no genre:
\* genre:action is held by one of the two items and still divided by 2
C22_Witness ==
    /\ Called("_buildUserProfileJS")
    /\ last.arg = <<M2, M3>>
    /\ WeightOf(userProfile, <<"genre", "action">>) > 0
    /\ WeightOf(userProfile, <<"genre", "comedy">>) > 0

(* ---------------------------- the rule table --------------------------- *)

Term(type, value, weight) == [k |-> <<type, value>>, v |-> weight]

\* the terms the rule table gives an item: 2.0 per genre, 1.5 per name of
\* the director field and 1.0 for each of the first three actors unless the
\* field is missing or a sentinel, 0.8 for the decade, 0.5 for the band of a
\* rating above 0, 1.0 for the mood
RuleTable(movie) ==
    {Term("genre", TrimLower(movie.genre[i]), 200) : i \in 1..Len(movie.genre)}
      \cup (IF movie.director \in {<<>>, <<"N/A">>, <<"Unknown">>} THEN {}
            ELSE {Term("director", TrimLower(movie.director[i]), 150) :
                    i \in 1..Len(movie.director)})
      \cup (IF movie.actors \in {<<>>, <<"N/A">>} THEN {}
            ELSE {Term("actor", TrimLower(movie.actors[i]), 100) :
                    i \in 1..Min(3, Len(movie.actors))})
      \cup (IF movie.year = "" THEN {}
            ELSE {Term("decade",
                       ToString(10 * (ParseInt(movie.year) \div 10)) \o "s",
                       80)})
      \cup (IF movie.rating > 0
            THEN {Term("rating",
                       IF movie.rating >= 4 THEN "high"
                       ELSE IF 2 * movie.rating >= 5 THEN "mid" ELSE "low",
                       50)}
            ELSE {})
      \cup (IF movie.mood = "" THEN {} ELSE {Term("mood", movie.mood, 100)})

SourceTerm(suggestion) == <<suggestion.type, suggestion.searchTerm>>

\* the number of profile terms with a strictly greater weight
Outranking(profile, term) ==
    Cardinality({i \in 1..Len(profile) :
                    profile[i].v > WeightOf(profile, term)})

\* C24: the suggestions of getSmartSuggestions come in non-increasing order
\* of the profile weight of their source terms, and each comes from one of
\* the ten highest-weight terms of the profile: a term that ten or more
\* terms outrank yields no suggestion, however few suggestions there are.
C24_OrderedTopTen ==
    (Called("getSmartSuggestions") /\ Len(last.arg) >= 2) =>
        LET suggestions == last.ret.val
        IN  /\ \A i \in 1..Len(suggestions) :
                  /\ Has(userProfile, SourceTerm(suggestions[i]))
                  /\ Outranking(userProfile, SourceTerm(suggestions[i])) < 10
            /\ \A i \in 1..Len(suggestions) : \A j \in i..Len(suggestions) :
                  WeightOf(userProfile, SourceTerm(suggestions[i]))
                    >= WeightOf(userProfile, SourceTerm(suggestions[j]))

\* the only director term of the profile is outranked by ten terms and the
\* list, of fewer than five suggestions, has no director suggestion
C24_Witness ==
    /\ Called("getSmartSuggestions")
    /\ Len(last.ret.val) \in 2..4
    /\ Has(userProfile, <<"director", "lana">>)
    /\ Outranking(userProfile, <<"director", "lana">>) >= 10
    /\ CountType(last.ret.val, "director") = 0

(* --------------------------- scoring is read-only ---------------------- *)

\* the step is a direct call of scoreMovie
ScoresSync == last' # last /\ last'.type = "sync" /\ last'.fn = "scoreMovie"

\* the step belongs to an activation of scoreMovieAsync
ScoresAsync ==
    \E p \in Procs :
        call[p].op = "scoreMovieAsync" \/ call'[p].op = "scoreMovieAsync"

\* C25: no step of scoreMovie or of scoreMovieAsync, whatever the remote
\* service answers, changes userProfile or idfCache; scoreMovie scores with
\* the table it finds, sends no request and leaves serverAvailable alone.
C25_ScoringKeepsTaste ==
    [][/\ (ScoresSync \/ ScoresAsync) => UNCHANGED <<userProfile, idfCache>>
       /\ ScoresSync =>
             /\ UNCHANGED serverAvailable
             /\ ~SendsRequest
             /\ last'.ret
                  = Val("number", scoreMovie(last'.arg, userProfile, idfCache))
      ]_vars

\* scoreMovieAsync has returned the score of a remote response on an engine
\* that holds a profile and a table
C25_Witness ==
    /\ Returned /\ last.op = "scoreMovieAsync"
    /\ last.resp.net = "response" /\ last.ret.kind = "number"
    /\ userProfile # <<>> /\ idfCache # <<>>

(* ------------------------ stickiness under overlap --------------------- *)

\* C26: with gateway operations that overlap, serverAvailable still never
\* goes from false to true: a probe or a remote call that settles late does
\* not undo an earlier failure or demotion.
C26_StickyUnderOverlap ==
    [][serverAvailable = "false" => serverAvailable' # "true"]_vars

(* ------------------------- achievements and users ---------------------- *)

\* the condition of an achievement on a user's data
Condition(id, user) ==
    CASE id = "first_movie"       -> Len(user.collection) >= 1
      [] id = "watchlist_starter" -> Len(user.watchlist) >= 1

\* AchievementManager.loadState: forceUnlock of every saved unlocked one
loadState(unlocked, savedAchievements) == unlocked \cup savedAchievements

\* AchievementManager.checkAll: the achievements newly unlocked
checkAll(unlocked, user) ==
    {id \in AchievementIds \ unlocked : Condition(id, user)}

\* User.toJSON: the achievements are those of AchievementManager.toJSON()
toJSON(user, unlocked) ==
    [saved |-> TRUE, collection |-> user.collection,
     watchlist |-> user.watchlist, achievements |-> unlocked]

saveToStorage(w) ==
    [w EXCEPT !.users[w.user.email] = toJSON(w.user, w.unlocked)]

\* checkAchievements of app.js
checkAchievements(w) ==
    IF w.user = NoUser THEN w
    ELSE Let(checkAll(w.unlocked, w.user), LAMBDA newlyUnlocked :
             IF newlyUnlocked = {} THEN w
             ELSE saveToStorage([w EXCEPT !.unlocked = @ \cup newlyUnlocked]))

\* array.splice(index, 1)
RemoveAt(seq, index) ==
    SubSeq(seq, 1, index - 1) \o SubSeq(seq, index + 1, Len(seq))

\* array.findIndex(m => m.imdbID === imdbID), from 1, 0 if there is none
RECURSIVE FindIndex(_, _, _)
FindIndex(seq, imdbID, i) ==
    IF i > Len(seq) THEN 0
    ELSE IF seq[i] = imdbID THEN i ELSE FindIndex(seq, imdbID, i + 1)

Result(success, w) == [success |-> success, w |-> w]

\* User.addMovie; the listener of 'movie:added' is checkAchievements
addMovie(w, imdbID) ==
    IF imdbID \in Range(w.user.collection) THEN Result(FALSE, w)
    ELSE Result(TRUE,
                checkAchievements(saveToStorage(
                    [w EXCEPT !.user.collection = Append(@, imdbID)])))

\* User.removeMovie; the listener of 'movie:removed' is checkAchievements
removeMovie(w, imdbID) ==
    Let(FindIndex(w.user.collection, imdbID, 1), LAMBDA index :
        IF index = 0 THEN Result(FALSE, w)
        ELSE Result(TRUE,
                    checkAchievements(saveToStorage(
                        [w EXCEPT !.user.collection = RemoveAt(@, index)]))))

\* User.addToWatchlist; 'watchlist:added' has no listener
addToWatchlist(w, imdbID) ==
    IF imdbID \in Range(w.user.collection) THEN Result(FALSE, w)
    ELSE IF imdbID \in Range(w.user.watchlist) THEN Result(FALSE, w)
    ELSE Result(TRUE,
                saveToStorage([w EXCEPT !.user.watchlist = Append(@, imdbID)]))

removeFromWatchlist(w, imdbID) ==
    Let(FindIndex(w.user.watchlist, imdbID, 1), LAMBDA index :
        IF index = 0 THEN Result(FALSE, w)
        ELSE Result(TRUE,
                    saveToStorage(
                        [w EXCEPT !.user.watchlist = RemoveAt(@, index)])))

\* User.moveToCollection
moveToCollection(w, imdbID) ==
    Let(FindIndex(w.user.watchlist, imdbID, 1), LAMBDA index :
        IF index = 0 THEN Result(FALSE, w)
        ELSE Result(TRUE,
                    checkAchievements(saveToStorage(
                        [w EXCEPT !.user.watchlist = RemoveAt(@, index),
                                  !.user.collection = Append(@, imdbID)]))))

\* data.collection.forEach of importCollection
RECURSIVE ImportMovies(_, _, _)
ImportMovies(collection, data, i) ==
    IF i > Len(data) THEN collection
    ELSE IF data[i] \in Range(collection)
         THEN ImportMovies(collection, data, i + 1)
         ELSE ImportMovies(Append(collection, data[i]), data, i + 1)

\* data.watchlist.forEach of importCollection
RECURSIVE ImportWatchlist(_, _, _, _)
ImportWatchlist(watchlist, collection, data, i) ==
    IF i > Len(data) THEN watchlist
    ELSE IF data[i] \in Range(watchlist) \/ data[i] \in Range(collection)
         THEN ImportWatchlist(watchlist, collection, data, i + 1)
         ELSE ImportWatchlist(Append(watchlist, data[i]), collection, data,
                              i + 1)

\* the files handed to importCollection: text that is not JSON, JSON
\* without a collection array, and exports of up to two items with or
\* without a watchlist
ImportFiles ==
    LET IdLists ==
            {<<>>} \cup {<<a>> : a \in Ids} \cup {<<a, b>> : a, b \in Ids}
        File(valid, collection, watchlist) ==
            [valid |-> valid, collection |-> collection,
             watchlist |-> watchlist]
    IN  {File(FALSE, Absent, Absent), File(TRUE, Absent, Absent)}
          \cup {File(TRUE, List(c), Absent) : c \in IdLists}
          \cup {File(TRUE, List(c), List(l)) : c \in IdLists, l \in IdLists}

\* User.importCollection
importCollection(w, file) ==
    IF ~file.valid \/ file.collection.kind # "list" THEN Result(FALSE, w)
    ELSE Let(ImportMovies(w.user.collection, file.collection.items, 1),
             LAMBDA collection :
                 Result(TRUE,
                        saveToStorage(
                            [w EXCEPT
                               !.user.collection = collection,
                               !.user.watchlist =
                                  IF file.watchlist.kind = "list"
                                  THEN ImportWatchlist(@, collection,
                                                       file.watchlist.items, 1)
                                  ELSE @])))

\* the page's state after a click handler that called a method of the
\* current user: the handlers with a trailing checkAchievements() run it
\* when the method has succeeded
Handled(r, checks) ==
    LET w == IF r.success /\ checks THEN checkAchievements(r.w) ELSE r.w
    IN  /\ currentUser' = w.user
        /\ allUsers' = w.users
        /\ achievements' = w.unlocked
        /\ UNCHANGED <<events, invoked>>

\* the page's user, storage and AchievementManager as one value handed from
\* call to call
Page == [user |-> currentUser, users |-> allUsers, unlocked |-> achievements]

AddMovie(ids) ==
    /\ currentUser # NoUser
    /\ \E imdbID \in ids : Handled(addMovie(Page, imdbID), TRUE)

RemoveMovie ==
    /\ currentUser # NoUser
    /\ \E imdbID \in Ids : Handled(removeMovie(Page, imdbID), TRUE)

AddToWatchlist(ids) ==
    /\ currentUser # NoUser
    /\ \E imdbID \in ids : Handled(addToWatchlist(Page, imdbID), TRUE)

RemoveFromWatchlist ==
    /\ currentUser # NoUser
    /\ \E imdbID \in Ids : Handled(removeFromWatchlist(Page, imdbID), FALSE)

MoveToCollection ==
    /\ currentUser # NoUser
    /\ \E imdbID \in Ids : Handled(moveToCollection(Page, imdbID), TRUE)

ImportCollection ==
    /\ currentUser # NoUser
    /\ \E file \in ImportFiles : Handled(importCollection(Page, file), TRUE)

\* a user who has just signed up: an empty collection and watchlist
InitUser ==
    /\ InitEngine
    /\ currentUser = NewUser("a@x")
    /\ allUsers = [email \in Emails |->
                     IF email = "a@x" THEN toJSON(NewUser("a@x"), {})
                     ELSE NoData]
    /\ achievements = {}
    /\ events = NoListeners
    /\ invoked = [id \in 1..MaxListeners |-> 0]

NextUser ==
    \/ AddMovie(Ids) /\ UNCHANGED engineVars
    \/ RemoveMovie /\ UNCHANGED engineVars
    \/ AddToWatchlist(Ids) /\ UNCHANGED engineVars
    \/ RemoveFromWatchlist /\ UNCHANGED engineVars
    \/ MoveToCollection /\ UNCHANGED engineVars
    \/ ImportCollection /\ UNCHANGED engineVars

\* the methods of one user's library called in any order
SpecUser == InitUser /\ [][NextUser]_vars

\* C27: after any sequence of addMovie, removeMovie, addToWatchlist,
\* removeFromWatchlist, moveToCollection and importCollection on a user who
\* starts with an empty collection, no two items of the collection have the
\* same imdbID.
C27_CollectionUnique == NoRepeat(currentUser.collection)

\* C28: after any such sequence no imdbID is in both the watchlist and the
\* collection, and the watchlist has no imdbID twice.
C28_WatchlistDisjoint ==
    /\ Range(currentUser.watchlist) \cap Range(currentUser.collection) = {}
    /\ NoRepeat(currentUser.watchlist)

(* ------------------------------ the emitter ---------------------------- *)

\* a function in this._events[eventName]: a callback registered with on(),
\* or the wrapper once() has made for a callback (each wrapper is a function
\* of its own, told apart by id). What a callback does when it is called: it
\* returns, it throws, or (the first time it is called) it emits the event it
\* listens to.
Listener(id, once, cb) == [id |-> id, once |-> once, cb |-> cb]

\* on(eventName, callback)
on(e, listener) ==
    [e EXCEPT !.events = [defined |-> TRUE, cbs |-> Append(@.cbs, listener)]]

\* off(eventName, callback)
off(e, listener) ==
    IF ~e.events.defined THEN e
    ELSE [e EXCEPT !.events.cbs = SelectSeq(@, LAMBDA cb : cb # listener)]

RECURSIVE emit(_)
RECURSIVE ForEach(_, _, _)
RECURSIVE CallListener(_, _)

\* the callback of a once() wrapper is called: the emitter afterwards and
\* whether the callback threw
Callback(e, listener) ==
    Let([e EXCEPT !.invoked[listener.id] = @ + 1], LAMBDA called :
        CASE listener.cb = "returns" -> [e |-> called, threw |-> FALSE]
          [] listener.cb = "throws"  -> [e |-> called, threw |-> TRUE]
          [] listener.cb = "emits"   ->
                 [e |-> IF e.invoked[listener.id] = 0 THEN emit(called)
                        ELSE called,
                  threw |-> FALSE])

\* one round of emit's forEach: try { callback(data) } catch { log }. For a
\* wrapper callback(data) is callback(...args); this.off(eventName, wrapper)
CallListener(e, listener) ==
    IF ~listener.once THEN e
    ELSE Let(Callback(e, listener), LAMBDA done :
             IF done.threw THEN done.e ELSE off(done.e, listener))

\* forEach runs over the array it was called on, whatever off() makes of
\* this._events[eventName] meanwhile
ForEach(e, cbs, i) ==
    IF i > Len(cbs) THEN e
    ELSE Let(CallListener(e, cbs[i]), LAMBDA after : ForEach(after, cbs, i + 1))

\* emit(eventName, data)
emit(e) ==
    IF ~e.events.defined THEN e ELSE ForEach(e, e.events.cbs, 1)

\* the emitter: its listeners and the invocations counted
AppEvents == [events |-> events, invoked |-> invoked]

\* the ids of the wrappers registered
WrapperIds == {events.cbs[i].id : i \in {j \in 1..Len(events.cbs) : events.cbs[j].once}}

Becomes(e) ==
    /\ events' = e.events
    /\ invoked' = e.invoked
    /\ UNCHANGED <<currentUser, allUsers, achievements>>

On ==
    /\ Len(events.cbs) < MaxListeners
    /\ \E cb \in {"returns", "throws"} :
          Becomes(on(AppEvents, Listener(0, FALSE, cb)))

\* once(eventName, callback): a new wrapper, its callback not yet invoked
Once ==
    /\ Len(events.cbs) < MaxListeners
    /\ \E cb \in {"returns", "throws", "emits"} :
          LET id == CHOOSE n \in 1..MaxListeners : n \notin WrapperIds
          IN  Becomes(on([AppEvents EXCEPT !.invoked[id] = 0],
                         Listener(id, TRUE, cb)))

\* off(eventName, callback) with a callback registered by on()
Off ==
    \E cb \in {"returns", "throws"} :
        Becomes(off(AppEvents, Listener(0, FALSE, cb)))

Emit ==
    /\ \A id \in 1..MaxListeners : invoked[id] < MaxInvoked
    /\ Becomes(emit(AppEvents))

NextEmitter ==
    \/ On /\ UNCHANGED engineVars
    \/ Once /\ UNCHANGED engineVars
    \/ Off /\ UNCHANGED engineVars
    \/ Emit /\ UNCHANGED engineVars

\* one event of one emitter: listeners come and go, the event is emitted
SpecEmitter == Init /\ [][NextEmitter]_vars

\* C29: a callback registered with once() is invoked at most once however
\* often the event is emitted, and its wrapper is no longer registered once
\* it has been invoked, also when the callback throws or emits the event.
C29_OnceAtMostOnce ==
    \A id \in 1..MaxListeners :
        /\ invoked[id] <= 1
        /\ invoked[id] >= 1 => id \notin WrapperIds

(* ------------------------------ the session ---------------------------- *)

\* handleSignup: User.signup saves the new user; showDashboard ends with
\* checkAchievements()
Signup ==
    /\ currentUser = NoUser
    /\ \E email \in Emails :
          IF allUsers[email].saved
          THEN UNCHANGED <<currentUser, allUsers, achievements>>
          ELSE LET w == checkAchievements(saveToStorage(
                            [Page EXCEPT !.user = NewUser(email)]))
               IN  /\ currentUser' = w.user
                   /\ allUsers' = w.users
                   /\ achievements' = w.unlocked
    /\ UNCHANGED <<events, invoked>>

\* User.fromJSON: the user of the saved data; the saved achievements go to
\* AchievementManager.loadState
fromJSON(data, email, unlocked) ==
    [user |-> [email |-> email, collection |-> data.collection,
               watchlist |-> data.watchlist],
     unlocked |-> loadState(unlocked, data.achievements)]

\* handleLogin: User.login, then showDashboard ends with checkAchievements()
Login ==
    /\ currentUser = NoUser
    /\ \E email \in Emails : \E passwordMatches \in BOOLEAN :
          IF ~allUsers[email].saved \/ ~passwordMatches
          THEN UNCHANGED <<currentUser, allUsers, achievements>>
          ELSE LET restored == fromJSON(allUsers[email], email, achievements)
                   w == checkAchievements(
                            [Page EXCEPT !.user = restored.user,
                                         !.unlocked = restored.unlocked])
               IN  /\ currentUser' = w.user
                   /\ allUsers' = w.users
                   /\ achievements' = w.unlocked
    /\ UNCHANGED <<events, invoked>>

\* handleLogout
Logout ==
    /\ currentUser # NoUser
    /\ currentUser' = NoUser
    /\ UNCHANGED <<allUsers, achievements, events, invoked>>

NextSession ==
    \/ Signup /\ UNCHANGED engineVars
    \/ Login /\ UNCHANGED engineVars
    \/ Logout /\ UNCHANGED engineVars
    \/ AddMovie({"tt1", "tt2"}) /\ UNCHANGED engineVars
    \/ AddToWatchlist({"tt1", "tt2"}) /\ UNCHANGED engineVars

\* the users of one page session: they sign up, log in, add items to their
\* collection or watchlist, and log out
SpecSession == Init /\ [][NextSession]_vars

\* C30: an achievement is unlocked in AchievementManager while a user is
\* logged in, and is in a user's saved data, only if that user's own data
\* satisfy its condition (the data of these users only grow, so a condition
\* that held at a check still holds): no unlock of an earlier user of the
\* session carries over.
C30_NoAchievementLeak ==
    /\ currentUser # NoUser =>
          \A id \in achievements : Condition(id, currentUser)
    /\ \A email \in Emails :
          \A id \in allUsers[email].achievements :
              Condition(id, allUsers[email])


====
